---- MODULE Spec2Model ----
(***************************************************************************)
(* A model of repl_pybricks.py: the coroutine uart_terminal, its nested    *)
(* handlers (on_exit, shutdown, handle_disconnect,                          *)
(* pybricks_service_handler, getchar) and the __main__ block.              *)
(*                                                                         *)
(* The main coroutine is modelled by its position pc.  A position named    *)
(* await_X means the coroutine is suspended in "await X": the call X has   *)
(* been issued and the event loop is free to run other callbacks and       *)
(* tasks.  The action that leaves await_X models the completion of X       *)
(* (normally or by raising) together with all the synchronous code up to   *)
(* the next await.  loop_test and getchar_test are the two reads of        *)
(* STOP_PROGRAM (lines 230 and 185); they are separate steps because the   *)
(* Windows handler on_exit runs on its own thread.                         *)
(*                                                                         *)
(* Strings are sequences of code points, byte strings sequences of         *)
(* numbers 0..255.  wire is the record of the calls made on the BLE        *)
(* client, in the order the code makes them.                               *)
(***************************************************************************)
EXTENDS Integers, Sequences, FiniteSets, TLC

\* ---- bounds of the model
MaxKeys == 1
MaxNotifs == 2
MaxSignals == 2

\* ---- constants of the program
START_REPL == 2
STOP_USER_PROGRAM == 0
STATUS_REPORT == 0
CTRL_C == 3

Platforms == {"Windows", "Posix"}

\* what term.getch can return: "a", CTRL-C, and a character above U+00FF
Units == {<<97>>, <<3>>, <<8364>>}

\* payloads of notifications on the command/event characteristic
Payloads ==
    { <<0, 0, 0, 0, 0>>,      \* status report, flags 0x00000000
      <<0, 64, 0, 0, 0>>,     \* status report, flags 0x00000040
      <<0, 0, 0, 0, 64>>,     \* status report, flags 0x40000000
      <<0, 191, 255, 0, 0>>,  \* status report, flags 0x0000ffbf
      <<1, 0, 0, 0, 0>>,      \* another event kind
      <<2>>,                  \* another event kind, no payload
      <<0, 0>>,               \* status report cut short
      <<>> }                  \* empty notification

\* what an awaited call on the BLE client can raise
Errors == {"BleakError", "TimeoutError", "CancelledError"}

VARIABLES
    platform,      \* platform.system() = "Windows" or not
    pc,            \* position of the coroutine uart_terminal
    STOP_PROGRAM,  \* the nonlocal flag of line 71
    exc,           \* exception in flight in uart_terminal, or "none"
    s,             \* the value getchar returns
    connected,     \* the BleakClient context is entered
    linkUp,        \* the device has not disconnected
    subs,          \* characteristics with an active notification callback
    rawMode,       \* inside "with term.raw()"
    wire,          \* calls issued on the client, in order
    keysRead,      \* values term.getch has returned, in order
    tasks,         \* shutdown() tasks created and not yet run
    sleeping,      \* a shutdown() task is in time.sleep on the event loop
    threads,       \* on_exit threads in time.sleep
    nSignals,      \* termination events delivered so far
    nNotifs,       \* command/event notifications delivered so far
    trig,          \* triggers that fired while the session was active
    last,          \* the last handler that ran: its input, the flag before it,
                   \* and whether it raised
    entered,       \* the try statement of line 229 has been entered
    failed,        \* positions at which uart_terminal had an exception raised
    exitCode,      \* exit status of the process, -1 while running
    escaped,       \* exception that left __main__ uncaught, or "none"
    printed,       \* diagnostic lines printed so far
    name,          \* the parameter name of uart_terminal: a string or None
    device,        \* the BLEDevice last passed to match_uuid_and_name
    adv,           \* the AdvertisementData passed with it
    matched        \* the filter has returned True for it

vars == <<platform, pc, STOP_PROGRAM, exc, s, connected, linkUp, subs, rawMode,
          wire, keysRead, tasks, sleeping, threads, nSignals, nNotifs,
          trig, last, entered, failed, exitCode, escaped, printed,
          name, device, adv, matched>>

\* what only the device filter of the scan reads and writes
fixed == <<platform, name, device, adv, matched>>

\* ---- calls on the client ------------------------------------------------

Call(op, ch, data, response, by) ==
    [op |-> op, ch |-> ch, data |-> data, response |-> response, by |-> by]

\* client.write_gatt_char(rx_char, data)
WriteRaw(data, by) == Call("write_gatt_char", "UART_RX", data, FALSE, by)

\* client.write_gatt_char(PYBRICKS_COMMAND_EVENT_UUID, struct.pack("<B", op), response=True)
WriteCommand(opcode, by) ==
    Call("write_gatt_char", "PYBRICKS_COMMAND_EVENT", <<opcode>>, TRUE, by)

StartNotify(ch) == Call("start_notify", ch, <<>>, FALSE, "setup")

StopNotify(ch) == Call("stop_notify", ch, <<>>, FALSE, "teardown")

\* ---- pure helpers -------------------------------------------------------

\* data = bytearray(); data.extend(map(ord, s)): every code point must be a byte
OrdFails(str) == \E i \in 1..Len(str) : str[i] > 255

OrdBytes(str) == [i \in 1..Len(str) |-> str[i]]

\* struct.unpack_from("<I", data, 1): needs four bytes after the first
UnpackFails(data) == Len(data) < 5

\* the flags read with the wrong byte order
UnpackBE(data) ==
    16777216 * data[2] + 65536 * data[3] + 256 * data[4] + data[5]

UnpackLE(data) ==
    data[2] + 256 * data[3] + 65536 * data[4] + 16777216 * data[5]

\* (flags >> 6) & 1
ProgramIsRunningBit(flags) == (flags \div 64) % 2

\* the positions at which uart_terminal is suspended in an await
AwaitPoints ==
    {"await_scan", "await_connect", "await_start_notify_rx", "await_write_start",
     "await_start_notify_ctl", "await_kbhit", "await_getch", "await_write_key",
     "await_td_int", "await_td_stop", "await_stop_notify_rx",
     "await_stop_notify_ctl", "await_disconnect"}

SessionActive == connected /\ pc # "done"

\* the event loop can run the coroutine: no task is blocking it in time.sleep
LoopFree == ~sleeping

\* ---- the device filter (lines 136-147) -----------------------------------

PYBRICKS_SERVICE_UUID == "c5f50001-8280-46da-89f4-6d8051e4aeef"

UART_SERVICE_UUID == "6E400001-B5A3-F393-E0A9-E50E24DCCA9E"

\* str.lower on the service identifiers in play
LowerUuid(u) ==
    CASE u = "C5F50001-8280-46DA-89F4-6D8051E4AEEF" ->
           "c5f50001-8280-46da-89f4-6d8051e4aeef"
      [] u = "6E400001-B5A3-F393-E0A9-E50E24DCCA9E" ->
           "6e400001-b5a3-f393-e0a9-e50e24dcca9e"
      [] OTHER -> u

\* an optional string: None, or a string of code points
None == [some |-> FALSE, v |-> <<>>]

Str(v) == [some |-> TRUE, v |-> v]

\* str.upper on ASCII text
UpperChar(c) == IF c >= 97 /\ c <= 122 THEN c - 32 ELSE c

Upper(str) == [i \in 1..Len(str) |-> UpperChar(str[i])]

\* the names in play: "Ab", "ab", "cd"; the addresses: "AB", "ab", "Cd"
Names == {<<65, 98>>, <<97, 98>>, <<99, 100>>}

Addresses == {<<65, 66>>, <<97, 98>>, <<67, 100>>}

Devices == [address : Addresses]

Adverts ==
    [local_name : {None} \cup {Str(v) : v \in Names},
     service_uuids : SUBSET {PYBRICKS_SERVICE_UUID, LowerUuid(UART_SERVICE_UUID)}]

NoDevice == [address |-> <<>>]

NoAdvert == [local_name |-> None, service_uuids |-> {}]

\* the filter with the advertised name compared without regard to case
MatchIgnoresNameCase(dev, ad) ==
    IF LowerUuid(PYBRICKS_SERVICE_UUID) \notin ad.service_uuids
      THEN FALSE
    ELSE IF /\ name # None
            /\ (~ad.local_name.some \/ Upper(ad.local_name.v) # Upper(name.v))
            /\ Upper(dev.address) # Upper(name.v)
      THEN FALSE
    ELSE TRUE

\* the filter without the test of the service identifier
MatchSkipsService(dev, ad) ==
    IF /\ name # None
       /\ ad.local_name # name
       /\ Upper(dev.address) # Upper(name.v)
      THEN FALSE
    ELSE TRUE

\* match_uuid_and_name(device, adv)
MatchUuidAndName(dev, ad) ==
    IF LowerUuid(PYBRICKS_SERVICE_UUID) \notin ad.service_uuids
      THEN FALSE
    ELSE IF /\ name # None
            /\ ad.local_name # name
            /\ Upper(dev.address) # Upper(name.v)
      THEN FALSE
    ELSE TRUE

\* the state at the call of BleakScanner.find_device_by_filter, without the filter
InitMain ==
    /\ platform \in Platforms
    /\ pc = "await_scan"
    /\ STOP_PROGRAM = FALSE
    /\ exc = "none"
    /\ s = <<>>
    /\ connected = FALSE
    /\ linkUp = FALSE
    /\ subs = {}
    /\ rawMode = FALSE
    /\ wire = <<>>
    /\ keysRead = <<>>
    /\ tasks = 0
    /\ sleeping = FALSE
    /\ threads = 0
    /\ nSignals = 0
    /\ nNotifs = 0
    /\ trig = {}
    /\ last = [h |-> "none", data |-> <<>>, pre |-> FALSE, err |-> FALSE]
    /\ entered = FALSE
    /\ failed = {}
    /\ exitCode = -1
    /\ escaped = "none"
    /\ printed = {"searching"}

\* the program as __main__ starts it: uart_terminal() with the default name
Init ==
    /\ InitMain
    /\ name = Str(<<80, 121, 98, 114, 105, 99, 107, 115, 32, 72, 117, 98>>)
    /\ device = NoDevice
    /\ adv = NoAdvert
    /\ matched = FALSE

\* ---- the __main__ block (lines 250-266) ----------------------------------

\* exceptions the try/except of __main__ handles
Handled == {"KeyboardInterrupt", "CancelledError", "TimeoutError", "RuntimeError"}

\* the process's exit status when asyncio.run ends with e
ExitCodeOf(e) ==
    IF e \in {"none", "CancelledError", "TimeoutError", "RuntimeError"} THEN 0 ELSE 1

\* the exception that leaves the program as a traceback, if any
EscapedOf(e) == IF e \in Handled \cup {"none", "SystemExit"} THEN "none" ELSE e

MainPrints(e) ==
    IF e = "TimeoutError" THEN {"timeout happened"}
    ELSE IF e = "RuntimeError" THEN {"runtime error"} ELSE {}

\* asyncio.run(uart_terminal()) returns or raises e
Finish(e) ==
    /\ pc' = "done"
    /\ exc' = e
    /\ exitCode' = ExitCodeOf(e)
    /\ escaped' = EscapedOf(e)
    /\ printed' = printed \cup MainPrints(e)

\* what the steps of the coroutine leave alone
env == <<fixed, STOP_PROGRAM, tasks, sleeping, threads, nSignals, nNotifs,
         trig, last>>

outcome == <<exitCode, escaped, printed>>

\* ---- uart_terminal: discovery and session set-up (lines 193-227) --------

\* the awaited call raises e at the current position
Raised == failed' = failed \cup {pc}

\* the scan with the message printed for None but without the exit
ScanDoneGoesOn ==
    /\ pc = "await_scan" /\ LoopFree
    /\ \/ /\ pc' = "await_connect"
          /\ UNCHANGED <<exc, failed, outcome>>
       \/ /\ pc' = "await_connect"
          /\ printed' = printed \cup {"no matching device found."}
          /\ UNCHANGED <<exc, failed, exitCode, escaped>>
       \/ \E e \in Errors : Finish(e) /\ Raised
    /\ UNCHANGED <<env, s, connected, linkUp, subs, rawMode, wire, keysRead, entered>>

\* BleakScanner.find_device_by_filter returns a device, returns None, or raises
ScanDone ==
    /\ pc = "await_scan" /\ LoopFree
    /\ \/ /\ pc' = "await_connect"
          /\ UNCHANGED <<exc, failed, outcome>>
       \/ /\ pc' = "done"
          /\ exc' = "SystemExit"
          /\ exitCode' = 1
          /\ printed' = printed \cup {"no matching device found."}
          /\ UNCHANGED <<escaped, failed>>
       \/ \E e \in Errors : Finish(e) /\ Raised
    /\ UNCHANGED <<env, s, connected, linkUp, subs, rawMode, wire, keysRead, entered>>

\* BleakClient.__aenter__ connects; then start_notify(UART_TX_CHAR_UUID) is called
ConnectDone ==
    /\ pc = "await_connect" /\ LoopFree
    /\ \/ /\ connected' = TRUE
          /\ linkUp' = TRUE
          /\ wire' = Append(wire, StartNotify("UART_TX"))
          /\ pc' = "await_start_notify_rx"
          /\ UNCHANGED <<exc, failed, outcome>>
       \/ /\ \E e \in Errors : Finish(e) /\ Raised
          /\ UNCHANGED <<connected, linkUp, wire>>
    /\ UNCHANGED <<env, s, subs, rawMode, keysRead, entered>>

\* leaving the session without term.raw() restoring the terminal
LeaveSessionKeepsRaw(e) ==
    /\ pc' = "await_disconnect"
    /\ exc' = e
    /\ rawMode' = rawMode

\* an exception (or the end of the body) leaves "with term.raw()" and
\* "async with BleakClient": the terminal is restored, __aexit__ disconnects
LeaveSession(e) ==
    /\ pc' = "await_disconnect"
    /\ exc' = e
    /\ rawMode' = FALSE

\* the finally clause starts: client.write_gatt_char(rx_char, b'\x03') is called
EnterFinally(e) ==
    /\ wire' = Append(wire, WriteRaw(<<CTRL_C>>, "teardown"))
    /\ pc' = "await_td_int"
    /\ exc' = e

\* the set-up with the control subscription made in place of the write of
\* StartUserProgram
StartNotifyRxDoneSubscribes ==
    /\ pc = "await_start_notify_rx" /\ LoopFree
    /\ \/ /\ linkUp
          /\ subs' = subs \cup {"UART_TX"}
          /\ printed' = printed \cup {"Connected"}
          /\ wire' = Append(wire, StartNotify("PYBRICKS_COMMAND_EVENT"))
          /\ pc' = "await_start_notify_ctl"
          /\ UNCHANGED <<exc, rawMode, failed>>
       \/ /\ \E e \in Errors : LeaveSession(e) /\ Raised
          /\ UNCHANGED <<subs, printed, wire>>
    /\ UNCHANGED <<env, s, connected, linkUp, keysRead, entered, exitCode,
                   escaped>>

\* lines 205-219: start_notify(UART_TX_CHAR_UUID) completes; then "Connected" is
\* printed and StartUserProgram is written
StartNotifyRxDone ==
    /\ pc = "await_start_notify_rx" /\ LoopFree
    /\ \/ /\ linkUp
          /\ subs' = subs \cup {"UART_TX"}
          /\ printed' = printed \cup {"Connected"}
          /\ wire' = Append(wire, WriteCommand(START_REPL, "setup"))
          /\ pc' = "await_write_start"
          /\ UNCHANGED <<exc, rawMode, failed>>
       \/ /\ \E e \in Errors : LeaveSession(e) /\ Raised
          /\ UNCHANGED <<subs, printed, wire>>
    /\ UNCHANGED <<env, s, connected, linkUp, keysRead, entered, exitCode,
                   escaped>>

\* lines 215-219 as if they stood inside the try statement: a failed write of
\* StartUserProgram is followed by the finally clause
WriteStartDoneInTry ==
    /\ pc = "await_write_start" /\ LoopFree
    /\ \/ /\ linkUp
          /\ wire' = Append(wire, StartNotify("PYBRICKS_COMMAND_EVENT"))
          /\ pc' = "await_start_notify_ctl"
          /\ UNCHANGED <<exc, rawMode, failed>>
       \/ /\ \E e \in Errors : EnterFinally(e) /\ Raised
          /\ UNCHANGED rawMode
    /\ UNCHANGED <<env, s, connected, linkUp, subs, keysRead, entered, outcome>>

\* lines 215-221: the write of StartUserProgram completes; then
\* start_notify(PYBRICKS_COMMAND_EVENT_UUID) is called
WriteStartDone ==
    /\ pc = "await_write_start" /\ LoopFree
    /\ \/ /\ linkUp
          /\ wire' = Append(wire, StartNotify("PYBRICKS_COMMAND_EVENT"))
          /\ pc' = "await_start_notify_ctl"
          /\ UNCHANGED <<exc, rawMode, failed>>
       \/ /\ \E e \in Errors : LeaveSession(e) /\ Raised
          /\ UNCHANGED wire
    /\ UNCHANGED <<env, s, connected, linkUp, subs, keysRead, entered, outcome>>

\* then "with term.raw():" and the try statement are entered
StartNotifyCtlDone ==
    /\ pc = "await_start_notify_ctl" /\ LoopFree
    /\ \/ /\ linkUp
          /\ subs' = subs \cup {"PYBRICKS_COMMAND_EVENT"}
          /\ rawMode' = TRUE
          /\ entered' = TRUE
          /\ pc' = "loop_test"
          /\ UNCHANGED <<exc, failed>>
       \/ /\ \E e \in Errors : LeaveSession(e) /\ Raised
          /\ UNCHANGED <<subs, entered>>
    /\ UNCHANGED <<env, s, connected, linkUp, wire, keysRead, outcome>>

\* ---- uart_terminal: the passthrough loop (lines 229-235) ----------------

\* line 230 as "while True"
LoopTestIgnoresFlag ==
    /\ pc = "loop_test" /\ LoopFree
    /\ pc' = "getchar_test" /\ UNCHANGED <<wire, exc>>
    /\ UNCHANGED <<env, s, connected, linkUp, subs, rawMode, keysRead, entered,
                   failed, outcome>>

\* line 230: while not STOP_PROGRAM
LoopTest ==
    /\ pc = "loop_test" /\ LoopFree
    /\ IF STOP_PROGRAM
         THEN EnterFinally("none")
         ELSE pc' = "getchar_test" /\ UNCHANGED <<wire, exc>>
    /\ UNCHANGED <<env, s, connected, linkUp, subs, rawMode, keysRead, entered,
                   failed, outcome>>

\* line 185: while not STOP_PROGRAM inside getchar; when the flag is set getchar
\* returns " ", and lines 233-235 write it to the device
GetcharTest ==
    /\ pc = "getchar_test" /\ LoopFree
    /\ IF STOP_PROGRAM
         THEN /\ s' = <<32>>
              /\ wire' = Append(wire, WriteRaw(OrdBytes(<<32>>), "loop"))
              /\ pc' = "await_write_key"
         ELSE /\ pc' = "await_kbhit"
              /\ UNCHANGED <<s, wire>>
    /\ UNCHANGED <<env, exc, connected, linkUp, subs, rawMode, keysRead, entered,
                   failed, outcome>>

\* line 187: term.kbhit(0.2) returns in the executor
KbhitDone ==
    /\ pc = "await_kbhit" /\ LoopFree
    /\ \/ Len(keysRead) < MaxKeys /\ pc' = "await_getch"
       \/ pc' = "getchar_test"
    /\ UNCHANGED <<env, exc, s, connected, linkUp, subs, rawMode, wire, keysRead,
                   entered, failed, outcome>>

\* lines 189-190 and 233-235: term.getch returns u, getchar returns it, and it is
\* converted and written; the conversion raises ValueError above U+00FF
GetchDone ==
    /\ pc = "await_getch" /\ LoopFree
    /\ \E u \in Units :
         /\ keysRead' = Append(keysRead, u)
         /\ s' = u
         /\ IF OrdFails(u)
              THEN EnterFinally("ValueError") /\ failed' = failed \cup {"convert"}
              ELSE /\ wire' = Append(wire, WriteRaw(OrdBytes(u), "loop"))
                   /\ pc' = "await_write_key"
                   /\ UNCHANGED <<exc, failed>>
    /\ UNCHANGED <<env, connected, linkUp, subs, rawMode, entered, outcome>>

\* line 235 completes: back to the loop condition, or into the finally clause
WriteKeyDone ==
    /\ pc = "await_write_key" /\ LoopFree
    /\ \/ linkUp /\ pc' = "loop_test" /\ UNCHANGED <<wire, exc, failed>>
       \/ \E e \in Errors : EnterFinally(e) /\ Raised
    /\ UNCHANGED <<env, s, connected, linkUp, subs, rawMode, keysRead, entered,
                   outcome>>

\* ---- uart_terminal: the finally clause (lines 236-248) ------------------

\* line 239 completes; on success the StopUserProgram command is written
TdIntDone ==
    /\ pc = "await_td_int" /\ LoopFree
    /\ \/ /\ linkUp
          /\ wire' = Append(wire, WriteCommand(STOP_USER_PROGRAM, "teardown"))
          /\ pc' = "await_td_stop"
          /\ UNCHANGED <<exc, rawMode, failed>>
       \/ /\ \E e \in Errors : LeaveSession(e) /\ Raised
          /\ UNCHANGED wire
    /\ UNCHANGED <<env, s, connected, linkUp, subs, keysRead, entered, outcome>>

\* lines 242-246 complete; on success stop_notify(UART_TX_CHAR_UUID) is called
TdStopDone ==
    /\ pc = "await_td_stop" /\ LoopFree
    /\ \/ /\ linkUp
          /\ wire' = Append(wire, StopNotify("UART_TX"))
          /\ pc' = "await_stop_notify_rx"
          /\ UNCHANGED <<exc, rawMode, failed>>
       \/ /\ \E e \in Errors : LeaveSession(e) /\ Raised
          /\ UNCHANGED wire
    /\ UNCHANGED <<env, s, connected, linkUp, subs, keysRead, entered, outcome>>

\* line 247 completes; on success stop_notify(PYBRICKS_COMMAND_EVENT_UUID) is called
StopNotifyRxDone ==
    /\ pc = "await_stop_notify_rx" /\ LoopFree
    /\ \/ /\ linkUp
          /\ subs' = subs \ {"UART_TX"}
          /\ wire' = Append(wire, StopNotify("PYBRICKS_COMMAND_EVENT"))
          /\ pc' = "await_stop_notify_ctl"
          /\ UNCHANGED <<exc, rawMode, failed>>
       \/ /\ \E e \in Errors : LeaveSession(e) /\ Raised
          /\ UNCHANGED <<wire, subs>>
    /\ UNCHANGED <<env, s, connected, linkUp, keysRead, entered, outcome>>

\* line 248 completes: the finally clause ends, an exception of the loop is
\* raised again, "with term.raw()" and "async with BleakClient" are left
StopNotifyCtlDone ==
    /\ pc = "await_stop_notify_ctl" /\ LoopFree
    /\ \/ /\ linkUp
          /\ subs' = subs \ {"PYBRICKS_COMMAND_EVENT"}
          /\ LeaveSession(exc)
          /\ UNCHANGED failed
       \/ /\ \E e \in Errors : LeaveSession(e) /\ Raised
          /\ UNCHANGED subs
    /\ UNCHANGED <<env, s, connected, linkUp, wire, keysRead, entered, outcome>>

\* BleakClient.__aexit__ has disconnected; asyncio.run ends
DisconnectDone ==
    /\ pc = "await_disconnect" /\ LoopFree
    /\ connected' = FALSE
    /\ linkUp' = FALSE
    /\ subs' = {}
    /\ Finish(exc)
    /\ UNCHANGED <<env, s, rawMode, wire, keysRead, entered, failed>>

\* the steps of the coroutine uart_terminal
MainStep ==
    \/ ScanDone \/ ConnectDone \/ StartNotifyRxDone \/ WriteStartDone
    \/ StartNotifyCtlDone \/ LoopTest \/ GetcharTest \/ KbhitDone \/ GetchDone
    \/ WriteKeyDone \/ TdIntDone \/ TdStopDone \/ StopNotifyRxDone
    \/ StopNotifyCtlDone \/ DisconnectDone

\* ---- the handlers --------------------------------------------------------

Fired(t) == IF SessionActive THEN trig \cup {t} ELSE trig

Ran(h, data, err) == [h |-> h, data |-> data, pre |-> STOP_PROGRAM, err |-> err]

\* lines 118-121: a signal (SIGHUP, SIGTERM, SIGINT) arrives and the handler
\* registered with loop.add_signal_handler creates a shutdown() task
SignalHandler ==
    /\ platform = "Posix" /\ pc # "done"
    /\ nSignals < MaxSignals
    /\ nSignals' = nSignals + 1
    /\ tasks' = tasks + 1
    /\ UNCHANGED <<fixed, pc, STOP_PROGRAM, exc, s, connected, linkUp, subs,
                   rawMode, wire, keysRead, sleeping, threads, nNotifs, trig, last,
                   entered, failed, outcome>>

\* shutdown() flipping the flag instead of setting it
ShutdownToggles ==
    /\ tasks > 0 /\ LoopFree /\ pc \in AwaitPoints
    /\ tasks' = tasks - 1
    /\ STOP_PROGRAM' = ~STOP_PROGRAM
    /\ printed' = printed \cup {"shutdown"}
    /\ sleeping' = TRUE
    /\ trig' = Fired("signal")
    /\ last' = Ran("shutdown", <<>>, FALSE)
    /\ UNCHANGED <<fixed, pc, exc, s, connected, linkUp, subs, rawMode, wire,
                   keysRead, threads, nSignals, nNotifs, entered, failed, exitCode,
                   escaped>>

\* lines 110-116: the task shutdown() runs on the event loop while uart_terminal
\* is suspended, sets the flag and enters time.sleep(1) on the loop's thread
Shutdown ==
    /\ tasks > 0 /\ LoopFree /\ pc \in AwaitPoints
    /\ tasks' = tasks - 1
    /\ STOP_PROGRAM' = TRUE
    /\ printed' = printed \cup {"shutdown"}
    /\ sleeping' = TRUE
    /\ trig' = Fired("signal")
    /\ last' = Ran("shutdown", <<>>, FALSE)
    /\ UNCHANGED <<fixed, pc, exc, s, connected, linkUp, subs, rawMode, wire,
                   keysRead, threads, nSignals, nNotifs, entered, failed, exitCode,
                   escaped>>

\* time.sleep(1) of shutdown() returns
ShutdownWake ==
    /\ sleeping
    /\ sleeping' = FALSE
    /\ UNCHANGED <<fixed, pc, STOP_PROGRAM, exc, s, connected, linkUp, subs,
                   rawMode, wire, keysRead, tasks, threads, nSignals, nNotifs, trig,
                   last, entered, failed, outcome>>

\* lines 95-102: on_exit runs on a thread of its own, sets the flag and sleeps
OnExit ==
    /\ platform = "Windows" /\ pc # "done"
    /\ nSignals < MaxSignals
    /\ nSignals' = nSignals + 1
    /\ STOP_PROGRAM' = TRUE
    /\ printed' = printed \cup {"shutdown"}
    /\ threads' = threads + 1
    /\ trig' = Fired("signal")
    /\ last' = Ran("on_exit", <<>>, FALSE)
    /\ UNCHANGED <<fixed, pc, exc, s, connected, linkUp, subs, rawMode, wire,
                   keysRead, tasks, sleeping, nNotifs, entered, failed, exitCode,
                   escaped>>

\* time.sleep(1) of on_exit returns
OnExitReturn ==
    /\ threads > 0
    /\ threads' = threads - 1
    /\ UNCHANGED <<fixed, pc, STOP_PROGRAM, exc, s, connected, linkUp, subs,
                   rawMode, wire, keysRead, tasks, sleeping, nSignals, nNotifs, trig,
                   last, entered, failed, outcome>>

\* lines 150-151: the device disconnects and the client calls handle_disconnect
HandleDisconnect ==
    /\ connected /\ linkUp /\ pc \in AwaitPoints \ {"await_disconnect"}
    /\ linkUp' = FALSE
    /\ printed' = printed \cup {"Device was disconnected, goodbye."}
    /\ trig' = Fired("disconnect")
    /\ last' = Ran("handle_disconnect", <<>>, FALSE)
    /\ UNCHANGED <<fixed, pc, STOP_PROGRAM, exc, s, connected, subs, rawMode,
                   wire, keysRead, tasks, sleeping, threads, nSignals, nNotifs,
                   entered, failed, exitCode, escaped>>

\* the handler storing the reading in the flag: a running program clears it
HandlerAssignsReading(data) ==
    IF Len(data) = 0
      THEN /\ last' = Ran("pybricks_service_handler", data, TRUE)
           /\ UNCHANGED <<STOP_PROGRAM, printed, trig>>
    ELSE IF data[1] # STATUS_REPORT
      THEN /\ last' = Ran("pybricks_service_handler", data, FALSE)
           /\ UNCHANGED <<STOP_PROGRAM, printed, trig>>
    ELSE IF UnpackFails(data)
      THEN /\ last' = Ran("pybricks_service_handler", data, TRUE)
           /\ UNCHANGED <<STOP_PROGRAM, printed, trig>>
    ELSE /\ last' = Ran("pybricks_service_handler", data, FALSE)
         /\ STOP_PROGRAM' = (ProgramIsRunningBit(UnpackLE(data)) = 0)
         /\ printed' = printed \cup {"Program on device stopped running."}
         /\ trig' = IF STOP_PROGRAM' THEN Fired("stopped") ELSE trig

\* the handler decoding the payload before it looks at the kind byte
HandlerUnpacksFirst(data) ==
    IF Len(data) = 0 \/ UnpackFails(data)
      THEN /\ last' = Ran("pybricks_service_handler", data, TRUE)
           /\ UNCHANGED <<STOP_PROGRAM, printed, trig>>
    ELSE IF data[1] = STATUS_REPORT /\ ProgramIsRunningBit(UnpackLE(data)) = 0
      THEN /\ last' = Ran("pybricks_service_handler", data, FALSE)
           /\ STOP_PROGRAM' = TRUE
           /\ printed' = printed \cup {"Program on device stopped running."}
           /\ trig' = Fired("stopped")
    ELSE /\ last' = Ran("pybricks_service_handler", data, FALSE)
         /\ UNCHANGED <<STOP_PROGRAM, printed, trig>>

\* lines 158-169, for a notification carrying data
PybricksServiceHandler(data) ==
    IF Len(data) = 0
      THEN \* data[0] raises IndexError
           /\ last' = Ran("pybricks_service_handler", data, TRUE)
           /\ UNCHANGED <<STOP_PROGRAM, printed, trig>>
    ELSE IF data[1] # STATUS_REPORT
      THEN /\ last' = Ran("pybricks_service_handler", data, FALSE)
           /\ UNCHANGED <<STOP_PROGRAM, printed, trig>>
    ELSE IF UnpackFails(data)
      THEN \* struct.unpack_from raises struct.error
           /\ last' = Ran("pybricks_service_handler", data, TRUE)
           /\ UNCHANGED <<STOP_PROGRAM, printed, trig>>
    ELSE IF ProgramIsRunningBit(UnpackLE(data)) = 0
      THEN /\ last' = Ran("pybricks_service_handler", data, FALSE)
           /\ STOP_PROGRAM' = TRUE
           /\ printed' = printed \cup {"Program on device stopped running."}
           /\ trig' = Fired("stopped")
    ELSE /\ last' = Ran("pybricks_service_handler", data, FALSE)
         /\ UNCHANGED <<STOP_PROGRAM, printed, trig>>

\* the client delivers a command/event notification to the registered callback;
\* the callback is registered from the moment start_notify (line 221) is called
Notify ==
    /\ "PYBRICKS_COMMAND_EVENT" \in subs \/ pc = "await_start_notify_ctl"
    /\ linkUp
    /\ LoopFree /\ pc \in AwaitPoints
    /\ nNotifs < MaxNotifs
    /\ nNotifs' = nNotifs + 1
    /\ \E data \in Payloads : PybricksServiceHandler(data)
    /\ UNCHANGED <<fixed, pc, exc, s, connected, linkUp, subs, rawMode, wire,
                   keysRead, tasks, sleeping, threads, nSignals, entered, failed,
                   exitCode, escaped>>

Next ==
    \/ MainStep
    \/ SignalHandler \/ Shutdown \/ ShutdownWake
    \/ OnExit \/ OnExitReturn
    \/ HandleDisconnect
    \/ Notify

Spec == Init /\ [][Next]_vars

\* ---- the scan alone: uart_terminal(name) for any name, with the scanner
\* passing the advertisements it detects to the filter until one matches

MatchInit ==
    /\ InitMain
    /\ name \in {None} \cup {Str(v) : v \in Names}
    /\ device = NoDevice
    /\ adv = NoAdvert
    /\ matched = FALSE

\* line 195: the scanner calls the filter on a detected device
Detection ==
    /\ pc = "await_scan" /\ ~matched
    /\ \E dev \in Devices, ad \in Adverts :
         /\ device' = dev
         /\ adv' = ad
         /\ matched' = MatchUuidAndName(dev, ad)
    /\ UNCHANGED <<platform, name, pc, STOP_PROGRAM, exc, s, connected, linkUp,
                   subs, rawMode, wire, keysRead, tasks, sleeping, threads,
                   nSignals, nNotifs, trig, last, entered, failed, outcome>>

MatchSpec == MatchInit /\ [][Detection]_vars

\* the event loop resumes a coroutine whose awaited call has completed, the
\* executor's kbhit returns within its timeout, and time.sleep returns
FairSpec == Spec /\ WF_vars(MainStep) /\ WF_vars(ShutdownWake)

\* ========================================================================
\* Properties
\* ========================================================================

\* the calls of the finally clause, in the order they were made
TeardownCalls == SelectSeq(wire, LAMBDA c : c.by = "teardown")

\* the writes of line 235, in the order they were made
LoopWrites == SelectSeq(wire, LAMBDA c : c.by = "loop")

Count(c) == Len(SelectSeq(wire, LAMBDA x : x = c))

Issued(c) == \E i \in 1..Len(wire) : wire[i] = c

\* the four steps of the teardown as they appear on the client
InterruptWrite ==
    [op |-> "write_gatt_char", ch |-> "UART_RX", data |-> <<3>>,
     response |-> FALSE, by |-> "teardown"]

StopCommand ==
    [op |-> "write_gatt_char", ch |-> "PYBRICKS_COMMAND_EVENT", data |-> <<0>>,
     response |-> TRUE, by |-> "teardown"]

CancelRaw ==
    [op |-> "stop_notify", ch |-> "UART_TX", data |-> <<>>,
     response |-> FALSE, by |-> "teardown"]

CancelControl ==
    [op |-> "stop_notify", ch |-> "PYBRICKS_COMMAND_EVENT", data |-> <<>>,
     response |-> FALSE, by |-> "teardown"]

\* the loop was entered and both it and the finally clause have been left
LoopOver == entered /\ pc \in {"await_disconnect", "done"}

TeardownPositions ==
    {"await_td_int", "await_td_stop", "await_stop_notify_rx", "await_stop_notify_ctl"}

\* C1: whenever the passthrough loop has been left after the session was set
\* up, the teardown has issued the interrupt byte, the StopUserProgram command,
\* the cancellation of the raw-data subscription and that of the control
\* subscription, in this order and each exactly once.
C1_TeardownInOrderOnce ==
    LoopOver => TeardownCalls = <<InterruptWrite, StopCommand, CancelRaw, CancelControl>>

\* C2: the teardown attempts all its steps whatever fails: when the write of the
\* interrupt byte fails the StopUserProgram command is still written, and when
\* either write fails both subscriptions are still cancelled.
C2_StepsRunDespiteFailure ==
    LoopOver =>
      /\ "await_td_int" \in failed => Issued(StopCommand)
      /\ failed \cap {"await_td_int", "await_td_stop"} # {}
            => Issued(CancelRaw) /\ Issued(CancelControl)

\* C3: a failure of a teardown step never leaves the teardown: when only
\* teardown steps failed, uart_terminal ends without an exception, nothing
\* escapes __main__ and the exit status is 0.
C3_TeardownFailureSwallowed ==
    (pc = "done" /\ entered /\ failed \subseteq TeardownPositions)
      => exc = "none" /\ escaped = "none" /\ exitCode = 0

\* C4: when the disconnect callback has fired during an active session, the
\* stop flag is true.
C4_DisconnectSetsStopFlag ==
    "disconnect" \in trig => STOP_PROGRAM

\* C5: the stop flag starts false and no step of any handler or of the loop
\* takes it from true back to false.
C5_StopFlagMonotonic ==
    ~STOP_PROGRAM /\ [][STOP_PROGRAM => STOP_PROGRAM']_vars

\* C5 witness: a status report of a running program was handled while the flag
\* was already set, and the flag is still set.
C5_Witness ==
    /\ STOP_PROGRAM /\ last.pre
    /\ last.h = "pybricks_service_handler"
    /\ last.data = <<0, 64, 0, 0, 0>>

\* C6: however many triggers fired and in whatever order, the outcome is that of
\* one: the flag is true, no teardown step has been issued twice, and once the
\* loop has been left the teardown has been started exactly once.
C6_TriggersIdempotent ==
    /\ trig \cap {"signal", "stopped"} # {} => STOP_PROGRAM
    /\ \A c \in {InterruptWrite, StopCommand, CancelRaw, CancelControl} : Count(c) <= 1
    /\ LoopOver => Count(InterruptWrite) = 1

\* C6 witness: a termination signal and a status report of a stopped program
\* both fired in the session, the later one with the flag already set, and the
\* run has ended with the teardown issued once.
C6_Witness ==
    /\ {"signal", "stopped"} \subseteq trig
    /\ last.pre /\ last.h \in {"shutdown", "on_exit", "pybricks_service_handler"}
    /\ pc = "done" /\ STOP_PROGRAM
    /\ TeardownCalls = <<InterruptWrite, StopCommand, CancelRaw, CancelControl>>

\* bit 6 of a little-endian 32-bit value is bit 6 of its first byte
RunningBitOf(data) == (data[2] \div 64) % 2

IsStatusReport(data) == Len(data) >= 5 /\ data[1] = 0

\* C7: a status report whose flags have bit 6 clear sets the stop flag, on every
\* such notification whether or not the flag was set before; a status report
\* whose flags have bit 6 set leaves the flag as it was.
C7_StatusReportSetsFlag ==
    (last.h = "pybricks_service_handler" /\ IsStatusReport(last.data)) =>
      /\ ~last.err
      /\ IF RunningBitOf(last.data) = 0
           THEN STOP_PROGRAM
           ELSE STOP_PROGRAM = last.pre

\* C7 witness: a status report with flags 0x40000000 (bit 6 clear) was handled
\* with the flag unset, and the flag is now set.
C7_Witness ==
    /\ last.h = "pybricks_service_handler"
    /\ last.data = <<0, 0, 0, 0, 64>>
    /\ ~last.pre /\ STOP_PROGRAM

\* C8: a notification whose kind byte is not StatusReport, of any length, is
\* handled without an exception and changes neither the stop flag nor any other
\* state of the session.
C8_UnknownKindIgnored ==
    [][(nNotifs' # nNotifs /\ Len(last'.data) >= 1 /\ last'.data[1] # 0) =>
         /\ ~last'.err
         /\ UNCHANGED <<STOP_PROGRAM, pc, exc, s, connected, linkUp, subs, rawMode,
                        wire, keysRead, tasks, sleeping, threads, trig, entered,
                        failed, exitCode, escaped, printed>>]_vars

\* C8 witness: a notification of kind 2 without payload was handled, without an
\* exception, while the loop was waiting for the keyboard.
C8_Witness ==
    /\ last.h = "pybricks_service_handler"
    /\ last.data = <<2>> /\ ~last.err
    /\ ~STOP_PROGRAM /\ pc = "await_kbhit"

\* all four teardown steps were issued, the link is closed, the run has ended
TornDown ==
    /\ pc = "done" /\ ~connected
    /\ TeardownCalls = <<InterruptWrite, StopCommand, CancelRaw, CancelControl>>

\* C9: once the stop flag is set while the loop is running, the loop is left,
\* the teardown completes and the link is closed, with no further key needed;
\* after that nothing more is written.
C9_StopLeadsToTornDown ==
    /\ (entered /\ rawMode /\ STOP_PROGRAM) ~> TornDown
    /\ [][pc = "done" => wire' = wire /\ pc' = pc]_vars

\* the writes of the loop are unconfirmed writes to the raw-data characteristic
IsRawWrite(c) == c.op = "write_gatt_char" /\ c.ch = "UART_RX" /\ ~c.response

\* C10: every unit read from the keyboard while the stop flag is unset has
\* produced one raw write carrying its bytes, in the order of the keystrokes,
\* after the StartUserProgram command and before any later command write.
C10_KeysForwardedInOrder ==
    /\ ~STOP_PROGRAM =>
         /\ Len(LoopWrites) >= Len(keysRead)
         /\ \A i \in 1..Len(keysRead) :
              i <= Len(LoopWrites) =>
                IsRawWrite(LoopWrites[i]) /\ LoopWrites[i].data = keysRead[i]
    /\ \A i, j \in 1..Len(wire) :
         (wire[i].by = "loop" /\ wire[j].response) =>
            IF wire[j].data = <<2>> THEN j < i ELSE i < j

\* a termination signal was delivered to the signal handlers of lines 118-121
\* while the scan was still running
SignalledInScan == platform = "Posix" /\ pc = "await_scan" /\ nSignals > 0

\* C11: after a termination signal delivered during the scan the run is
\* interrupted: its next step ends the process with a non-zero status, no
\* connection is opened and nothing is written to the device.
C11_EarlySignalInterrupts ==
    [][SignalledInScan =>
         /\ pc' \in {"await_scan", "done"}
         /\ ~connected' /\ wire' = <<>>
         /\ pc' = "done" => exitCode' # 0]_vars

\* the filter has been called on an advertisement
Filtered == device # NoDevice

Advertises(ad) == "c5f50001-8280-46da-89f4-6d8051e4aeef" \in ad.service_uuids

\* C12: an advertisement without the required service identifier is rejected
\* whatever its name and address; one with it is accepted when name is None.
C12_ServiceDecides ==
    Filtered =>
      /\ ~Advertises(adv) => ~matched
      /\ (Advertises(adv) /\ name = None) => matched

\* C12 witness: an advertisement whose name equals the target but which lacks
\* the service identifier was passed to the filter and rejected.
C12_Witness ==
    /\ Filtered /\ ~matched
    /\ name # None /\ adv.local_name = name
    /\ adv.service_uuids = {"6e400001-b5a3-f393-e0a9-e50e24dcca9e"}

\* equality of two strings without regard to letter case
LowerChar(c) == IF c >= 65 /\ c <= 90 THEN c + 32 ELSE c

CaseEq(a, b) ==
    /\ Len(a) = Len(b)
    /\ \A i \in 1..Len(a) : LowerChar(a[i]) = LowerChar(b[i])

\* C13 as stated: with a target given, an advertisement carrying the service
\* identifier matches exactly when its name or its address equals the target
\* without regard to case.
C13_NameOrAddressIgnoringCase ==
    (Filtered /\ name # None /\ Advertises(adv)) =>
      (matched <=> \/ adv.local_name.some /\ CaseEq(adv.local_name.v, name.v)
                   \/ CaseEq(device.address, name.v))

\* C13 amended: with a target given, an advertisement carrying the service
\* identifier matches exactly when its name equals the target character for
\* character or its address equals the target without regard to case.
C13_ExactNameOrAddressIgnoringCase ==
    (Filtered /\ name # None /\ Advertises(adv)) =>
      (matched <=> \/ adv.local_name.some /\ adv.local_name.v = name.v
                   \/ CaseEq(device.address, name.v))

\* C13 witness: an advertisement carrying the service identifier, whose name
\* differs from the target only in case and whose address is another string,
\* was passed to the filter and rejected.
C13_Witness ==
    /\ Filtered /\ ~matched /\ Advertises(adv)
    /\ name = Str(<<65, 98>>)
    /\ adv.local_name = Str(<<97, 98>>)
    /\ device.address = <<67, 100>>

\* the scan ended without a device
NotFound == "no matching device found." \in printed

\* C14: when the scan returns no device the run is over with exit status 1:
\* the coroutine never resumes, no second scan is started, no connection is
\* opened and no raw or command write is ever issued.
C14_NotFoundExitsAfterOneScan ==
    /\ [](NotFound =>
            /\ pc = "done" /\ exc = "SystemExit" /\ exitCode = 1
            /\ ~connected /\ ~linkUp
            /\ wire = <<>>)
    /\ [][pc' = "await_scan" => pc = "await_scan"]_vars

\* C14 witness: the scan returned None and the process has exited.
C14_Witness == NotFound /\ pc = "done" /\ exitCode = 1 /\ wire = <<>>

\* a trigger handler is in its one-second pause
HandlerPauses == sleeping \/ threads > 0

\* C15: a pausing handler never blocks the event loop: while any handler
\* pauses and the run is not over, the coroutine of the passthrough loop can
\* take its next step (observe the flag, complete an awaited call).
C15_PauseNeverBlocksLoop ==
    (HandlerPauses /\ pc # "done") => ENABLED MainStep

StartCommand ==
    [op |-> "write_gatt_char", ch |-> "PYBRICKS_COMMAND_EVENT", data |-> <<2>>,
     response |-> TRUE, by |-> "setup"]

IsCommandWrite(c) ==
    c.op = "write_gatt_char" /\ c.ch = "PYBRICKS_COMMAND_EVENT" /\ c.response

\* the calls the coroutine is suspended in: the call issued last, while the
\* coroutine waits at the position that follows its issue
AwaitingConfirmation ==
    {i \in 1..Len(wire) :
       /\ i = Len(wire)
       /\ IsCommandWrite(wire[i])
       /\ pc \in {"await_write_start", "await_td_stop"}}

Index(c) == CHOOSE i \in 1..Len(wire) : wire[i] = c

\* C16: command writes are serialized: at most one command write awaits its
\* confirmation, each command is written at most once, and StopUserProgram is
\* written only after the write of StartUserProgram has returned successfully.
C16_CommandsSerialized ==
    /\ Cardinality(AwaitingConfirmation) <= 1
    /\ Count(StartCommand) <= 1 /\ Count(StopCommand) <= 1
    /\ \A i \in 1..Len(wire) :
         IsCommandWrite(wire[i]) => wire[i] \in {StartCommand, StopCommand}
    /\ pc = "await_write_start" =>
         wire[Len(wire)] = StartCommand /\ ~Issued(StopCommand)
    /\ Issued(StopCommand) =>
         /\ Issued(StartCommand)
         /\ Index(StartCommand) < Index(StopCommand)
         /\ "await_write_start" \notin failed

\* C16 witness: StopUserProgram has been written and awaits its confirmation,
\* after StartUserProgram was written and confirmed.
C16_Witness ==
    /\ pc = "await_td_stop"
    /\ wire[Len(wire)] = StopCommand
    /\ Issued(StartCommand)

LoopPositions ==
    {"loop_test", "getchar_test", "await_kbhit", "await_getch", "await_write_key"}

\* C17: the terminal is in raw mode exactly while the passthrough loop or its
\* teardown runs; once they are left, by the normal end of the teardown, by an
\* error or a cancellation raised in a write of the loop or in a teardown step,
\* the terminal is back in its prior mode.
C17_RawModeExactlyInLoop ==
    /\ rawMode <=> pc \in LoopPositions \cup TeardownPositions
    /\ LoopOver => ~rawMode

\* C17 witness: the loop ran, a teardown step was cancelled, and the run is
\* over with the terminal restored.
C17_Witness ==
    /\ pc = "done" /\ entered /\ ~rawMode
    /\ exc = "CancelledError"
    /\ failed \cap TeardownPositions # {}

\* the write carries the bytes of a unit that term.getch has returned
Typed(c) ==
    \E k \in 1..Len(keysRead) :
       ~OrdFails(keysRead[k]) /\ c.data = OrdBytes(keysRead[k])

\* C18: every write issued by the passthrough loop carries the bytes of a unit
\* read from the keyboard, also on the iteration in which the stop flag is seen.
C18_LoopWritesOnlyTypedBytes ==
    \A i \in 1..Len(LoopWrites) : Typed(LoopWrites[i])

\* a keyboard-availability poll (term.kbhit) is started in this step
PollStarts == pc' = "await_kbhit" /\ pc # "await_kbhit"

\* the write of line 235 is issued in this step
LoopWriteIssued == Len(LoopWrites') > Len(LoopWrites)

\* the positions from the write of line 235 to the end of the run, without
\* the positions inside getchar
PastGetchar ==
    {"await_write_key", "loop_test"} \cup TeardownPositions
      \cup {"await_disconnect", "done"}

\* C19: once the stop flag is true the passthrough loop issues at most one
\* more write before the interrupt byte of the teardown and starts no new
\* keyboard poll: no poll starts with the flag set; a write issued with the
\* flag set leaves the coroutine waiting for that write; and from there on,
\* with the flag set, the loop issues no write and does not re-enter getchar.
C19_AtMostOneWriteAfterStop ==
    /\ [][(STOP_PROGRAM /\ PollStarts) => FALSE]_vars
    /\ [][(STOP_PROGRAM /\ LoopWriteIssued) =>
            /\ Len(LoopWrites') = Len(LoopWrites) + 1
            /\ pc' = "await_write_key"]_vars
    /\ [][(STOP_PROGRAM /\ pc \in PastGetchar) =>
            ~LoopWriteIssued /\ pc' \in PastGetchar]_vars

\* C19 witness: with the flag set the loop has written the value getchar
\* returned, and the next call is the teardown's interrupt byte.
C19_Witness ==
    /\ STOP_PROGRAM /\ pc = "await_td_int" /\ Len(wire) >= 2
    /\ wire[Len(wire)] = InterruptWrite
    /\ wire[Len(wire) - 1].by = "loop"
    /\ wire[Len(wire) - 1].data = <<32>>

RawSubscription ==
    [op |-> "start_notify", ch |-> "UART_TX", data |-> <<>>,
     response |-> FALSE, by |-> "setup"]

ControlSubscription ==
    [op |-> "start_notify", ch |-> "PYBRICKS_COMMAND_EVENT", data |-> <<>>,
     response |-> FALSE, by |-> "setup"]

\* call a was issued, returned without an exception at position p, and call b
\* was issued after it
ThenOnly(a, p, b) ==
    Issued(b) => Issued(a) /\ Index(a) < Index(b) /\ p \notin failed

\* C20: the session is set up in a fixed order: the raw-data subscription is
\* active when StartUserProgram is written, the control subscription is made
\* only after that write has returned successfully, no notification is handled
\* (so no status report sets the flag) before the control subscription is
\* made, and no key is written before the control subscription has succeeded.
C20_SetupOrder ==
    /\ pc = "await_write_start" => "UART_TX" \in subs
    /\ ThenOnly(RawSubscription, "await_start_notify_rx", StartCommand)
    /\ ThenOnly(StartCommand, "await_write_start", ControlSubscription)
    /\ (last.h = "pybricks_service_handler" \/ "stopped" \in trig) =>
         Issued(ControlSubscription)
    /\ \A i \in 1..Len(wire) :
         wire[i].by = "loop" =>
            /\ entered /\ "await_start_notify_ctl" \notin failed
            /\ Issued(ControlSubscription) /\ Index(ControlSubscription) < i

\* C20 witness: a status report has set the flag and a key has been written,
\* both after the three calls of the set-up.
C20_Witness ==
    /\ "stopped" \in trig
    /\ LoopWrites # <<>>
    /\ Issued(RawSubscription) /\ Issued(StartCommand) /\ Issued(ControlSubscription)

====
